---------------------------- MODULE Spec2Model ----------------------------
(***************************************************************************)
(* Best-response dynamic program of BestResponseDynamics/BR.py and the     *)
(* swap-regret aggregation of NoRegretDynamics/helpers.py.                 *)
(*                                                                         *)
(* Arithmetic.  kappa and the averaged opponent schedules are rationals.   *)
(* kappa is held as a numerator over KappaDen, an opponent schedule as     *)
(* integer numerators over a common denominator D (D = 1 for a plain       *)
(* integer schedule).  Every cost is held multiplied by D * KappaDen, a    *)
(* positive factor, so comparisons and equalities between costs of one     *)
(* instance are those of the real-valued program.  np.inf is the value     *)
(* CInf.  Arrays are functions over 0..len-1 and are read and written      *)
(* with numpy's index rule: -len <= i < len, a negative i wrapping to      *)
(* i + len, anything else raising IndexError.                              *)
(***************************************************************************)
EXTENDS Integers, Sequences, FiniteSets, TLC

\* ------------------------------------------------------------------ bounds
MaxT == 3
MaxLim == 2
MaxV == 3
KappaDen == 2
MaxRounds == 2
SRMaxT == 2
SRMaxLim == 1
SRMaxV == 1

BValues == {0, 1}
KappaNums == {0, 1, 2}
SRKappaNums == {0, 1}

VARIABLES V, T, lower_limit, upper_limit, kappa, bnow,
          dptable, dpaction, t, volrem, anow, pc,
          p1_actions, p2_actions, total_regret

vars == <<V, T, lower_limit, upper_limit, kappa, bnow,
          dptable, dpaction, t, volrem, anow, pc,
          p1_actions, p2_actions, total_regret>>

\* ------------------------------------------------------------- numpy values
CInf == [fin |-> FALSE, v |-> 0]

Fin(x) == [fin |-> TRUE, v |-> x]

\* inf + x = inf
CAdd(c, x) == IF c.fin THEN Fin(c.v + x) ELSE c

CLe(a, b) == (~b.fin) \/ (a.fin /\ a.v <= b.v)

\* thisval <= mincost: a later candidate of equal cost replaces the earlier
CLtOrEqual(a, b) == a.fin /\ ((~b.fin) \/ a.v <= b.v)

\* thisval < mincost
CLt(a, b) == a.fin /\ ((~b.fin) \/ a.v < b.v)

IndexOk(i, n) == -n <= i /\ i < n

At(i, n) == IF i < 0 THEN i + n ELSE i

Zeros(n) == [i \in 0..(n - 1) |-> 0]

\* A numpy array holds its elements: the function is enumerated once here
\* rather than re-evaluated at every read.
Array(f) == IF f = f THEN f ELSE f

RECURSIVE SumTo(_, _)
\* np.sum(x[:k])
SumTo(x, k) == IF k <= 0 THEN 0 ELSE SumTo(x, k - 1) + x[k - 1]

\* --------------------------------------------------------------- instance
\* The arguments of one call of best_respond; bnow[i] / D is the schedule.
Instance(v, b, d, tt, k, lo, hi) ==
    [V |-> v, bnow |-> b, D |-> d, T |-> tt, kappa |-> k, L |-> lo, U |-> hi]

min_remaining(p, tt) == p.V - p.U * tt

max_remaining(p, tt) == p.V - p.L * tt

s_size(p) == max_remaining(p, p.T) - min_remaining(p, p.T) + 1

s_to_index(p, s) == s - min_remaining(p, p.T)

Window(p, tt) == min_remaining(p, tt)..max_remaining(p, tt)

\* b[i] = np.sum(bnow[:i+1]), read with numpy's index rule
b(p, i) == SumTo(p.bnow, At(i, p.T) + 1)

EmptyTables(p) ==
    [cost |-> Array([tt \in 0..(p.T - 1) |->
                       [i \in 0..(s_size(p) - 1) |-> CInf]]),
     act  |-> Array([tt \in 0..(p.T - 1) |-> Zeros(s_size(p))])]

\* s*((s + bnow[T-1]) + kappa*((V-s) + b[T-2]))
BaseCost(p, s) ==
    s * (KappaDen * (p.D * s + p.bnow[p.T - 1])
         + p.kappa * (p.D * (p.V - s) + b(p, p.T - 2)))

\* q*(q + bnow[t]) at t = 0, else q*((q + bnow[t]) + kappa*((V-s) + b[t-1]))
StepCost(p, tt, s, q) ==
    IF tt = 0
    THEN KappaDen * q * (p.D * q + p.bnow[tt])
    ELSE q * (KappaDen * (p.D * q + p.bnow[tt])
              + p.kappa * (p.D * (p.V - s) + b(p, tt - 1)))

\* the initialisation loop without its trading-limit test
BaseStatesNoLimits(p) == Window(p, p.T)

\* The states the initialisation loop writes: range(min_remaining(T),
\* max_remaining(T) + 1) filtered by the trading limits.
BaseStates(p) ==
    {s \in Window(p, p.T) : p.L <= s /\ s <= p.U}

InitLast(p, tab) ==
    LET n == s_size(p)
        last == p.T - 1
        hit(i) == \E s \in BaseStates(p) : s_to_index(p, s) = i
        sOf(i) == i + min_remaining(p, p.T)
    IN  [cost |-> [tab.cost EXCEPT ![last] =
                     Array([i \in 0..(n - 1) |->
                        IF hit(i) THEN Fin(BaseCost(p, sOf(i))) ELSE @[i]])],
         act  |-> [tab.act EXCEPT ![last] =
                     Array([i \in 0..(n - 1) |->
                        IF hit(i) THEN sOf(i) ELSE @[i]])]]

\* thisval for candidate q at (t, s), reading row t+1 of the cost table
ThisVal(p, nextrow, tt, s, q) ==
    CAdd(nextrow[At(s_to_index(p, s - q), s_size(p))], StepCost(p, tt, s, q))

RECURSIVE ScanQ(_, _, _, _, _, _)
\* for q in range(lower_limit, upper_limit + 1): keep the first strict minimum
ScanQ(p, nextrow, tt, s, q, acc) ==
    IF q > p.U THEN acc
    ELSE LET thisval == ThisVal(p, nextrow, tt, s, q)
         IN  ScanQ(p, nextrow, tt, s, q + 1,
                   IF CLt(thisval, acc.mincost)
                   THEN [mincost |-> thisval, q |-> q, wrote |-> TRUE]
                   ELSE acc)

ScanStart == [mincost |-> CInf, q |-> 0, wrote |-> FALSE]

MaxOf(S) == CHOOSE x \in S : \A y \in S : y <= x

\* One iteration of the loop over t: every s of the window at t, in order.
Layer(p, tab, tt) ==
    LET n == s_size(p)
        res == Array([s \in Window(p, tt) |->
                        ScanQ(p, tab.cost[tt + 1], tt, s, p.L, ScanStart)])
        \* the s written at cell i: index i, or index i - n wrapping to i
        writers(i) == {s \in {i + min_remaining(p, p.T),
                              i - n + min_remaining(p, p.T)} :
                          s \in Window(p, tt) /\ res[s].wrote}
    IN  [cost |-> [tab.cost EXCEPT ![tt] =
                     Array([i \in 0..(n - 1) |->
                        IF writers(i) = {} THEN @[i]
                        ELSE res[MaxOf(writers(i))].mincost])],
         act  |-> [tab.act EXCEPT ![tt] =
                     Array([i \in 0..(n - 1) |->
                        IF writers(i) = {} THEN @[i]
                        ELSE res[MaxOf(writers(i))].q])]]

\* The iteration raises IndexError: a read of row t+1 or a write of row t
\* falls outside -n..n-1.
LayerRaises(p, tab, tt) ==
    LET n == s_size(p)
    IN  \E s \in Window(p, tt) :
           IF \E q \in p.L..p.U : ~IndexOk(s_to_index(p, s - q), n)
           THEN TRUE
           ELSE IF IndexOk(s_to_index(p, s), n)
           THEN FALSE
           ELSE ScanQ(p, tab.cost[tt + 1], tt, s, p.L, ScanStart).wrote

RECURSIVE BackwardFrom(_, _, _)
\* for t in reversed(range(T-1))
BackwardFrom(p, tab, tt) ==
    IF tt < 0 THEN [raised |-> FALSE, tab |-> tab]
    ELSE IF LayerRaises(p, tab, tt) THEN [raised |-> TRUE, tab |-> tab]
    ELSE BackwardFrom(p, Layer(p, tab, tt), tt - 1)

RECURSIVE Walk(_, _, _, _, _)
\* the reconstruction loop
Walk(p, act, tt, rem, out) ==
    IF tt = p.T THEN [raised |-> FALSE, anow |-> out]
    ELSE LET i == s_to_index(p, rem)
         IN  IF ~IndexOk(i, s_size(p)) THEN [raised |-> TRUE, anow |-> out]
             ELSE LET q == act[tt][At(i, s_size(p))]
                  IN  Walk(p, act, tt + 1, rem - q, [out EXCEPT ![tt] = q])

best_respond(p) ==
    LET r == BackwardFrom(p, InitLast(p, EmptyTables(p)), p.T - 2)
    IN  IF r.raised THEN [raised |-> TRUE, anow |-> Zeros(p.T)]
        ELSE Walk(p, r.tab.act, 0, p.V, Zeros(p.T))

RECURSIVE CostTo(_, _, _, _, _)
CostTo(a, bb, d, k, n) ==
    IF n = 0 THEN 0
    ELSE CostTo(a, bb, d, k, n - 1)
         + KappaDen * (d * a[n - 1] + bb[n - 1]) * a[n - 1]
         + k * (d * SumTo(a, n - 1) + SumTo(bb, n - 1)) * a[n - 1]

\* total_cost(anow, bnow, kappa), times d * KappaDen
total_cost(a, bb, d, k) == CostTo(a, bb, d, k, Cardinality(DOMAIN a))

\* ---------------------------------------------------- best_respond, stepped
P == Instance(V, bnow, 1, T, kappa, lower_limit, upper_limit)

Tab == [cost |-> dptable, act |-> dpaction]

Limits(m) == {lu \in (-m..m) \X (-m..m) : lu[1] <= lu[2]}

NoRounds ==
    /\ p1_actions = << >>
    /\ p2_actions = << >>
    /\ total_regret = 0

Init ==
    /\ T \in 1..MaxT
    /\ \E lu \in Limits(MaxLim) : lower_limit = lu[1] /\ upper_limit = lu[2]
    /\ V \in -MaxV..MaxV
    /\ kappa \in KappaNums
    /\ bnow \in [0..(T - 1) -> BValues]
    /\ dptable = EmptyTables(P).cost
    /\ dpaction = EmptyTables(P).act
    /\ t = T - 1
    /\ volrem = V
    /\ anow = Zeros(T)
    /\ pc = "init"
    /\ NoRounds

Params == <<V, T, lower_limit, upper_limit, kappa, bnow>>

Rounds == <<p1_actions, p2_actions, total_regret>>

\* lines 47-52
InitBase ==
    /\ pc = "init"
    /\ dptable' = InitLast(P, Tab).cost
    /\ dpaction' = InitLast(P, Tab).act
    /\ t' = IF T >= 2 THEN T - 2 ELSE 0
    /\ pc' = IF T >= 2 THEN "backward" ELSE "reconstruct"
    /\ UNCHANGED <<Params, volrem, anow, Rounds>>

\* lines 55-75, one value of t
BackwardLayer ==
    /\ pc = "backward"
    /\ ~LayerRaises(P, Tab, t)
    /\ dptable' = Layer(P, Tab, t).cost
    /\ dpaction' = Layer(P, Tab, t).act
    /\ t' = IF t > 0 THEN t - 1 ELSE 0
    /\ pc' = IF t > 0 THEN "backward" ELSE "reconstruct"
    /\ UNCHANGED <<Params, volrem, anow, Rounds>>

BackwardRaise ==
    /\ pc = "backward"
    /\ LayerRaises(P, Tab, t)
    /\ pc' = "IndexError"
    /\ UNCHANGED <<Params, dptable, dpaction, t, volrem, anow, Rounds>>

\* lines 82-85, one value of t
ReconstructStep ==
    /\ pc = "reconstruct"
    /\ t < T
    /\ IndexOk(s_to_index(P, volrem), s_size(P))
    /\ LET q == dpaction[t][At(s_to_index(P, volrem), s_size(P))]
       IN  /\ anow' = [anow EXCEPT ![t] = q]
           /\ volrem' = volrem - q
    /\ t' = t + 1
    /\ UNCHANGED <<Params, dptable, dpaction, pc, Rounds>>

ReconstructRaise ==
    /\ pc = "reconstruct"
    /\ t < T
    /\ ~IndexOk(s_to_index(P, volrem), s_size(P))
    /\ pc' = "IndexError"
    /\ UNCHANGED <<Params, dptable, dpaction, t, volrem, anow, Rounds>>

\* line 88
Return ==
    /\ pc = "reconstruct"
    /\ t = T
    /\ pc' = "done"
    /\ UNCHANGED <<Params, dptable, dpaction, t, volrem, anow, Rounds>>

Next ==
    \/ InitBase
    \/ BackwardLayer
    \/ BackwardRaise
    \/ ReconstructStep
    \/ ReconstructRaise
    \/ Return

Spec == Init /\ [][Next]_vars

\* The stepped run and best_respond taken as one call end alike.
StepsAgreeWithCall ==
    /\ pc \in {"init", "backward", "reconstruct", "done", "IndexError"}
    /\ DOMAIN anow = 0..(T - 1)
    /\ (pc = "done") => (best_respond(P) = [raised |-> FALSE, anow |-> anow])
    /\ (pc = "IndexError") => best_respond(P).raised

\* ------------------------------------------------- NoRegretDynamics/helpers
RECURSIVE SumSeq(_)
SumSeq(xs) == IF xs = << >> THEN 0 ELSE Head(xs) + SumSeq(Tail(xs))

RECURSIVE AddReduce(_, _)
\* np.add.reduce(opponent_actions): the elementwise sum of the schedules
AddReduce(opp, n) ==
    IF n = 0 THEN [i \in DOMAIN opp[1] |-> 0]
    ELSE LET prev == AddReduce(opp, n - 1)
         IN  Array([i \in DOMAIN opp[1] |-> prev[i] + opp[n][i]])

\* regret with bnow_r left as the sum of the opponent schedules, not their
\* average
regretOfSum(cumulative_cost, opponent_actions, v, tt, k, lo, hi) ==
    LET r == Len(opponent_actions)
        bsum == AddReduce(opponent_actions, r)
        best_action == best_respond(Instance(v, bsum, 1, tt, k, lo, hi))
        best_cost == r * total_cost(best_action.anow, bsum, 1, k)
    IN  [raised |-> best_action.raised,
         value  |-> cumulative_cost - best_cost]

\* regret(cumulative_cost, opponent_actions, V, T, kappa, limits), times
\* KappaDen.  bnow_r is AddReduce / r, so total_cost at denominator r is
\* KappaDen * r * total_cost(best_action, bnow_r, kappa).
regret(cumulative_cost, opponent_actions, v, tt, k, lo, hi) ==
    LET r == Len(opponent_actions)
        bsum == AddReduce(opponent_actions, r)
        best_action == best_respond(Instance(v, bsum, r, tt, k, lo, hi))
        best_cost == total_cost(best_action.anow, bsum, r, k)
    IN  [raised |-> best_action.raised,
         value  |-> cumulative_cost - best_cost]

\* action_to_indices: the distinct actions of Player 1
GroupKeys(p1) == {p1[i] : i \in DOMAIN p1}

\* the rounds, in order, in which Player 1 played a1
GroupIndices(p1, a1) ==
    LET F[n \in 0..Len(p1)] ==
            IF n = 0 THEN << >>
            ELSE IF p1[n] = a1 THEN Append(F[n - 1], n) ELSE F[n - 1]
    IN  F[Len(p1)]

GroupRegret(p1, p2, a1, v, tt, k, lo, hi) ==
    LET indices == GroupIndices(p1, a1)
        p2_subseq == Array([j \in DOMAIN indices |-> p2[indices[j]]])
        subseq_cost == SumSeq([j \in DOMAIN indices |->
                                 total_cost(p1[indices[j]], p2[indices[j]], 1, k)])
    IN  regret(subseq_cost, p2_subseq, v, tt, k, lo, hi)

RECURSIVE SumValues(_, _)
SumValues(f, S) ==
    IF S = {} THEN 0
    ELSE LET x == CHOOSE y \in S : TRUE
         IN  f[x].value + SumValues(f, S \ {x})

\* swap_regret(p1_actions, p2_actions, Va, T, kappa, limits), times KappaDen
swap_regret(p1, p2, v, tt, k, lo, hi) ==
    LET keys == GroupKeys(p1)
        per == Array([a1 \in keys |->
                        GroupRegret(p1, p2, a1, v, tt, k, lo, hi)])
    IN  [raised |-> \E a1 \in keys : per[a1].raised,
         value  |-> SumValues(per, keys)]

\* ------------------------------------------------ rounds of best responses
InitSR ==
    /\ T \in 1..SRMaxT
    /\ \E lu \in Limits(SRMaxLim) : lower_limit = lu[1] /\ upper_limit = lu[2]
    /\ V \in -SRMaxV..SRMaxV
    /\ T * lower_limit <= V /\ V <= T * upper_limit
    /\ kappa \in SRKappaNums
    /\ bnow = Zeros(T)
    /\ dptable = EmptyTables(P).cost
    /\ dpaction = EmptyTables(P).act
    /\ t = 0
    /\ volrem = V
    /\ anow = Zeros(T)
    /\ pc = "rounds"
    /\ NoRounds

Call == <<dptable, dpaction, t, volrem, anow>>

Response(bb) == best_respond(Instance(V, bb, 1, T, kappa, lower_limit, upper_limit))

\* one round: Player 2 plays bb, Player 1 plays best_respond against it
PlayRound ==
    /\ pc = "rounds"
    /\ Len(p1_actions) < MaxRounds
    /\ \E bb \in [0..(T - 1) -> BValues] :
          LET p1_action == Response(bb)
          IN  /\ ~p1_action.raised
              /\ p1_actions' = Append(p1_actions, p1_action.anow)
              /\ p2_actions' = Append(p2_actions, bb)
    /\ UNCHANGED <<Params, Call, pc, total_regret>>

\* best_respond raises in the round
PlayRoundRaise ==
    /\ pc = "rounds"
    /\ Len(p1_actions) < MaxRounds
    /\ \E bb \in [0..(T - 1) -> BValues] : Response(bb).raised
    /\ pc' = "IndexError"
    /\ UNCHANGED <<Params, Call, Rounds>>

\* swap_regret over the rounds played so far
SwapRegret ==
    /\ pc = "rounds"
    /\ LET sr == swap_regret(p1_actions, p2_actions, V, T, kappa,
                             lower_limit, upper_limit)
       IN  IF sr.raised
           THEN pc' = "IndexError" /\ total_regret' = total_regret
           ELSE pc' = "evaluated" /\ total_regret' = sr.value
    /\ UNCHANGED <<Params, Call, p1_actions, p2_actions>>

NextSR ==
    \/ PlayRound
    \/ PlayRoundRaise
    \/ SwapRegret

SpecSR == InitSR /\ [][NextSR]_vars

\* ------------------------------------------------------------- properties
Feasible == T * lower_limit <= V /\ V <= T * upper_limit

\* the limits straddle zero
ZeroWithinLimits == lower_limit <= 0 /\ 0 <= upper_limit

BackwardDone == pc \in {"reconstruct", "done"}

InTable(i) == 0 <= i /\ i < s_size(P)

Readable(s) == IndexOk(s_to_index(P, s), s_size(P))

CostAt(tt, s) == dptable[tt][At(s_to_index(P, s), s_size(P))]

ActionAt(tt, s) == dpaction[tt][At(s_to_index(P, s), s_size(P))]

WithinLimits(q) == lower_limit <= q /\ q <= upper_limit

\* every trajectory within the limits that buys exactly V
Trajectories ==
    {a \in [0..(T - 1) -> lower_limit..upper_limit] : SumTo(a, T) = V}

BruteForceMin ==
    LET costs == {total_cost(a, bnow, 1, kappa) : a \in Trajectories}
    IN  CHOOSE c \in costs : \A d \in costs : c <= d

\* C1: on a feasible instance best_respond returns a trajectory of length T
\* whose elements sum to exactly V.
C1_BudgetConservation ==
    Feasible =>
        /\ pc # "IndexError"
        /\ (pc = "done") => (DOMAIN anow = 0..(T - 1) /\ SumTo(anow, T) = V)

\* Budget conservation where the limits straddle zero.
BudgetConservationZeroWithinLimits ==
    (Feasible /\ ZeroWithinLimits) =>
        /\ pc # "IndexError"
        /\ (pc = "done") => SumTo(anow, T) = V

\* C2: on a feasible instance the cost of the returned trajectory is the
\* minimum of total_cost over all trajectories within the limits that sum
\* to V.
C2_Optimality ==
    Feasible =>
        /\ pc # "IndexError"
        /\ (pc = "done") => (total_cost(anow, bnow, 1, kappa) = BruteForceMin)

\* Optimality where the limits straddle zero.
OptimalityZeroWithinLimits ==
    (Feasible /\ ZeroWithinLimits) =>
        /\ pc # "IndexError"
        /\ (pc = "done") => (total_cost(anow, bnow, 1, kappa) = BruteForceMin)

\* C3: whenever best_respond returns, every element of the returned
\* trajectory lies within [lower_limit, upper_limit].
C3_BoundAdherence ==
    (pc = "done") => \A i \in 0..(T - 1) : WithinLimits(anow[i])

\* Bound adherence where the limits straddle zero, feasible or not.
BoundAdherenceZeroWithinLimits ==
    (pc = "done" /\ ZeroWithinLimits) =>
        \A i \in 0..(T - 1) : WithinLimits(anow[i])

\* C4: with T = 1 and lower_limit <= V <= upper_limit, best_respond returns
\* the one-element trajectory [V].
C4_DegenerateHorizon ==
    (T = 1 /\ WithinLimits(V)) =>
        /\ pc # "IndexError"
        /\ (pc = "done") => (anow = [i \in 0..0 |-> V])

\* Degenerate horizon where the limits straddle zero.
DegenerateHorizonZeroWithinLimits ==
    (T = 1 /\ WithinLimits(V) /\ ZeroWithinLimits) =>
        /\ pc # "IndexError"
        /\ (pc = "done") => (anow = [i \in 0..0 |-> V])

\* C5: when [T*lower_limit, T*upper_limit] does not contain V, best_respond
\* reports an error and returns no trajectory.
C5_InfeasibleReported ==
    (~Feasible) => pc # "done"

\* C7: the table is (upper_limit - lower_limit)*T + 1 wide and every index
\* the run uses lies in 0..width-1, none out of range and none negative:
\* in the initialisation the index of every s it writes, in the iteration
\* for t the index of every s of the window at t and of every next_s = s - q
\* read at layer t+1, in the reconstruction the index of the remaining
\* volume, starting from s = V.
C7_IndicesInRange ==
    /\ s_size(P) = (upper_limit - lower_limit) * T + 1
    /\ pc # "IndexError"
    /\ (pc = "init") =>
          \A s \in BaseStates(P) : InTable(s_to_index(P, s))
    /\ (pc = "backward") =>
          \A s \in Window(P, t) :
              /\ InTable(s_to_index(P, s))
              /\ \A q \in lower_limit..upper_limit :
                    InTable(s_to_index(P, s - q))
    /\ (pc = "reconstruct" /\ t < T) => InTable(s_to_index(P, volrem))

\* Indices stay in range where the limits straddle zero, and no call raises.
IndicesInRangeZeroWithinLimits ==
    ZeroWithinLimits =>
        /\ pc # "IndexError"
        /\ InTable(s_to_index(P, volrem))
        /\ \A tt \in 0..(T - 1) : \A s \in Window(P, tt) :
              /\ InTable(s_to_index(P, s))
              /\ (tt < T - 1) =>
                    \A q \in lower_limit..upper_limit :
                        InTable(s_to_index(P, s - q))

\* The recorded action at (tt, s) is within the limits and leads to a state
\* of the next window with finite recorded cost; at the last step it is s.
ActionSound(tt, s) ==
    /\ Readable(s)
    /\ WithinLimits(ActionAt(tt, s))
    /\ IF tt < T - 1
       THEN LET next == s - ActionAt(tt, s)
            IN  /\ next \in Window(P, tt + 1)
                /\ Readable(next)
                /\ CostAt(tt + 1, next).fin
       ELSE ActionAt(tt, s) = s

C9_TieBreakFirstMinimum ==
    BackwardDone =>
        \A tt \in 0..(T - 2) : \A s \in Window(P, tt) :
            (Readable(s) /\ CostAt(tt, s).fin) =>
                LET val(q) == ThisVal(P, dptable[tt + 1], tt, s, q)
                    best == ActionAt(tt, s)
                IN  /\ WithinLimits(best)
                    /\ CostAt(tt, s) = val(best)
                    /\ \A q \in lower_limit..upper_limit :
                          /\ CLe(val(best), val(q))
                          /\ (q < best) => (val(q) # val(best))

\* A complete table in which two candidates tie for the minimum at a state.
C9_Witness ==
    /\ pc = "done"
    /\ \E tt \in 0..(T - 2) : \E s \in Window(P, tt) :
          /\ Readable(s)
          /\ CostAt(tt, s).fin
          /\ \E q \in lower_limit..upper_limit :
                /\ q > ActionAt(tt, s)
                /\ ThisVal(P, dptable[tt + 1], tt, s, q) = CostAt(tt, s)

\* C10: on a feasible instance with T >= 1 the cost recorded for the start
\* state (t = 0, s = V) equals total_cost of the returned trajectory.  Taken
\* on instances whose limits straddle zero, where every index is inside the
\* table.
C10_TableCostIsTotalCost ==
    (Feasible /\ pc = "done" /\ ZeroWithinLimits) =>
        /\ Readable(V)
        /\ CostAt(0, V) = Fin(total_cost(anow, bnow, 1, kappa))

\* The recorded start cost is total_cost for two or more steps, where the
\* limits straddle zero.
TableCostIsTotalCostFromTwoSteps ==
    (Feasible /\ pc = "done" /\ T >= 2 /\ ZeroWithinLimits) =>
        CostAt(0, V) = Fin(total_cost(anow, bnow, 1, kappa))

=============================================================================
